---------------------------- MODULE Spec2Model ----------------------------
(***************************************************************************)
(* Model of unity::indicator::datetime::DateTime (src/src/date-time.cpp).  *)
(*                                                                         *)
(* A DateTime holds two shared handles, m_tz (GTimeZone) and m_dt          *)
(* (GDateTime).  The calendar engine (GLib) is outside the repository; it  *)
(* is modelled as a small uniform calendar with fixed-offset zones and a   *)
(* bounded representable range, so that every call the wrapper makes can   *)
(* succeed or return NULL the way the engine's interface allows.           *)
(*                                                                         *)
(* Build assumptions: g_assert aborts the process; g_return_if_fail logs   *)
(* a critical message and returns (GLib's defaults: assertions and checks  *)
(* compiled in, criticals not fatal).                                      *)
(***************************************************************************)
EXTENDS Integers, Sequences, FiniteSets, TLC

VARIABLES
    localtz,  \* the process's local time zone (fixed for the run)
    a,        \* a DateTime object held by the caller (receiver of the calls)
    r,        \* what the last call returned
    out,      \* the last call: its name, arguments and second operand
    aborted   \* TRUE once a g_assert has failed: the process is gone

vars == <<localtz, a, r, out, aborted>>

---------------------------------------------------------------------------
(* The calendar engine: sizes of the model calendar.                       *)

SecsPerMinute == 2
MinsPerHour == 2
HoursPerDay == 2
DaysPerYear == 2
NumYears == 2

SecsPerHour == SecsPerMinute * MinsPerHour
SecsPerDay == SecsPerHour * HoursPerDay
SecsPerYear == SecsPerDay * DaysPerYear
\* local times the engine can represent: 0 .. RangeSecs - 1 (years 1 .. NumYears)
RangeSecs == SecsPerYear * NumYears
\* the Unix epoch is the start of year 2 in UTC, so negative epoch seconds exist
EpochStart == SecsPerYear

\* GTimeZone*: a zone, or the null pointer
NullTZ == "null"
TimeZones == {"UTC", "East"}
ZoneNames == {"UTC", "East", "Bogus/Nowhere"}
Offset(tz) == IF tz = "East" THEN SecsPerHour ELSE 0

\* GDateTime*: a moment (its own zone and its local time in seconds), or null
NullDT == [tz |-> NullTZ, loc |-> 0]
Moments == [tz : TimeZones, loc : 0 .. (RangeSecs - 1)]

g_time_zone_new_local == localtz
g_time_zone_new(name) == IF name \in TimeZones THEN name ELSE NullTZ

g_date_time_to_instant(dt) == dt.loc - Offset(dt.tz)
g_date_time_from_instant(tz, instant) ==
    LET loc == instant + Offset(tz)
    IN  IF tz = NullTZ \/ loc < 0 \/ loc >= RangeSecs
        THEN NullDT
        ELSE [tz |-> tz, loc |-> loc]

g_date_time_new(tz, y, m, d, h, mi, s) ==
    IF /\ tz # NullTZ
       /\ y \in 1 .. NumYears
       /\ m = 1
       /\ d \in 1 .. DaysPerYear
       /\ h \in 0 .. (HoursPerDay - 1)
       /\ mi \in 0 .. (MinsPerHour - 1)
       /\ s \in 0 .. (SecsPerMinute - 1)
    THEN [tz |-> tz,
          loc |-> (y - 1) * SecsPerYear + (d - 1) * SecsPerDay
                  + h * SecsPerHour + mi * SecsPerMinute + s]
    ELSE NullDT
g_date_time_new_local(y, m, d, h, mi, s) ==
    g_date_time_new(g_time_zone_new_local, y, m, d, h, mi, s)
g_date_time_new_from_unix_local(t) ==
    g_date_time_from_instant(g_time_zone_new_local, t + EpochStart)
g_date_time_to_unix(dt) == g_date_time_to_instant(dt) - EpochStart
g_date_time_to_timezone(dt, tz) ==
    IF dt = NullDT \/ tz = NullTZ
    THEN NullDT
    ELSE g_date_time_from_instant(tz, g_date_time_to_instant(dt))

g_date_time_get_year(dt) == 1 + (dt.loc \div SecsPerYear)
g_date_time_get_day_of_year(dt) == 1 + ((dt.loc \div SecsPerDay) % DaysPerYear)
g_date_time_get_month(dt) == 1
g_date_time_get_day_of_month(dt) == g_date_time_get_day_of_year(dt)
g_date_time_get_hour(dt) == (dt.loc \div SecsPerHour) % HoursPerDay
g_date_time_get_minute(dt) == (dt.loc \div SecsPerMinute) % MinsPerHour
g_date_time_get_seconds(dt) == dt.loc % SecsPerMinute
g_date_time_get_ymd(dt) ==
    <<g_date_time_get_year(dt), g_date_time_get_month(dt),
      g_date_time_get_day_of_month(dt)>>

g_date_time_add_full(dt, years, months, days, hours, minutes, seconds) ==
    LET loc == dt.loc + (years + months) * SecsPerYear + days * SecsPerDay
               + hours * SecsPerHour + minutes * SecsPerMinute + seconds
    IN  IF loc < 0 \/ loc >= RangeSecs
        THEN NullDT
        ELSE [tz |-> dt.tz, loc |-> loc]

Sign(n) == IF n < 0 THEN -1 ELSE IF n > 0 THEN 1 ELSE 0
g_date_time_compare(dt1, dt2) ==
    Sign(g_date_time_to_instant(dt1) - g_date_time_to_instant(dt2))
UsecPerSecond == 1000000
g_date_time_difference(dt1, dt2) ==
    (g_date_time_to_instant(dt1) - g_date_time_to_instant(dt2)) * UsecPerSecond

FormatPatterns == {"%H:%M", "%"}
\* the rendered string, or "" standing for the engine's NULL on a bad pattern
g_date_time_format(dt, fmt) ==
    IF fmt = "%H:%M"
    THEN ToString(g_date_time_get_hour(dt)) \o ":" \o ToString(g_date_time_get_minute(dt))
    ELSE ""

---------------------------------------------------------------------------
(* DateTime objects and what a call returns.                               *)

\* DateTime::DateTime(): both handles empty
Unset == [m_tz |-> NullTZ, m_dt |-> NullDT]

\* is_set() is declared in the header, which is not part of src/
is_set(this) == this.m_tz # NullTZ /\ this.m_dt # NullDT

NoRet == [kind |-> "none", inst |-> Unset, b |-> FALSE, ints |-> <<>>, s |-> ""]
\* a call's outcome: abort (a failed g_assert), the value returned, and the
\* number of critical messages logged by g_return_if_fail
Aborted == [abort |-> TRUE, ret |-> NoRet, crit |-> 0]
RetInst(i, c) == [abort |-> FALSE, ret |-> [NoRet EXCEPT !.kind = "instant", !.inst = i], crit |-> c]
RetBool(v) == [abort |-> FALSE, ret |-> [NoRet EXCEPT !.kind = "bool", !.b = v], crit |-> 0]
RetInts(v) == [abort |-> FALSE, ret |-> [NoRet EXCEPT !.kind = "ints", !.ints = v], crit |-> 0]
RetStr(v) == [abort |-> FALSE, ret |-> [NoRet EXCEPT !.kind = "str", !.s = v], crit |-> 0]

\* g_time_zone_unref / g_date_time_unref of a null pointer log a critical
UnrefCrit(p, null) == IF p = null THEN 1 ELSE 0

---------------------------------------------------------------------------
(* DateTime's methods, each returning the outcome of the call.             *)

g_time_zone_ref(gtz) == gtz
g_date_time_ref(gdt) == gdt

\* mutant of reset: the all-or-nothing guard left out
reset_unguarded(this, gtz, gdt) ==
    [obj |-> [m_tz |-> IF gtz # NullTZ THEN g_time_zone_ref(gtz) ELSE NullTZ,
              m_dt |-> IF gdt # NullDT THEN g_date_time_ref(gdt) ELSE NullDT],
     crit |-> 0]

\* void DateTime::reset(GTimeZone*, GDateTime*): the object afterwards and the
\* criticals logged
reset(this, gtz, gdt) ==
    IF (gdt = NullDT) # (gtz = NullTZ)
    THEN [obj |-> this, crit |-> 1]
    ELSE [obj |-> [m_tz |-> IF gtz # NullTZ THEN g_time_zone_ref(gtz) ELSE NullTZ,
                   m_dt |-> IF gdt # NullDT THEN g_date_time_ref(gdt) ELSE NullDT],
          crit |-> 0]

\* mutant of DateTime_pair: both handles stored without the presence guards
DateTime_pair_unguarded(gtz, gdt) == [obj |-> [m_tz |-> gtz, m_dt |-> gdt], crit |-> 0]

\* DateTime::DateTime(GTimeZone*, GDateTime*)
DateTime_pair(gtz, gdt) ==
    IF (gtz = NullTZ) # (gdt = NullDT)
    THEN [obj |-> Unset, crit |-> 1]
    ELSE reset(Unset, gtz, gdt)

\* DateTime::DateTime(time_t)
DateTime_time_t(t) ==
    LET gtz == g_time_zone_new_local
        gdt == g_date_time_new_from_unix_local(t)
        dt == reset(Unset, gtz, gdt)
    IN  RetInst(dt.obj, dt.crit + UnrefCrit(gtz, NullTZ) + UnrefCrit(gdt, NullDT))

\* DateTime& DateTime::operator=(const DateTime&)
operator_assign(this, that) == [m_tz |-> that.m_tz, m_dt |-> that.m_dt]

\* DateTime::NowLocal(), the engine's clock reading local time `now`
NowLocal(now) ==
    LET gtz == g_time_zone_new_local
        gdt == [tz |-> g_time_zone_new_local, loc |-> now]
        dt == DateTime_pair(gtz, gdt)
    IN  RetInst(dt.obj, dt.crit + UnrefCrit(gtz, NullTZ) + UnrefCrit(gdt, NullDT))

\* mutant of Local: minute and seconds passed to the engine in the wrong order
Local_minute_seconds_swapped(year, month, day, hour, minute, seconds) ==
    LET gtz == g_time_zone_new_local
        gdt == g_date_time_new_local(year, month, day, hour, seconds, minute)
        dt == DateTime_pair(gtz, gdt)
    IN  RetInst(dt.obj, dt.crit + UnrefCrit(gtz, NullTZ) + UnrefCrit(gdt, NullDT))

\* DateTime::Local(year, month, day, hour, minute, seconds)
Local(year, month, day, hour, minute, seconds) ==
    LET gtz == g_time_zone_new_local
        gdt == g_date_time_new_local(year, month, day, hour, minute, seconds)
        dt == DateTime_pair(gtz, gdt)
    IN  RetInst(dt.obj, dt.crit + UnrefCrit(gtz, NullTZ) + UnrefCrit(gdt, NullDT))

\* mutant of get: the assertion left out
get_unchecked(this) == [abort |-> FALSE, val |-> this.m_dt]

\* GDateTime* DateTime::get() const: g_assert(m_dt)
get(this) == [abort |-> this.m_dt = NullDT, val |-> this.m_dt]

\* mutant of to_timezone: the calendar fields re-read in the new zone instead
\* of the instant converted
to_timezone_same_fields(this, zone) ==
    LET gtz == g_time_zone_new(zone)
        gdt == IF gtz = NullTZ \/ this.m_dt = NullDT
               THEN NullDT
               ELSE [tz |-> gtz, loc |-> this.m_dt.loc]
        dt == DateTime_pair(gtz, gdt)
    IN  IF this.m_dt = NullDT
        THEN Aborted
        ELSE RetInst(dt.obj, dt.crit + UnrefCrit(gtz, NullTZ) + UnrefCrit(gdt, NullDT))

\* DateTime::to_timezone(zone)
to_timezone(this, zone) ==
    LET gtz == g_time_zone_new(zone)
        gdt == g_date_time_to_timezone(get(this).val, gtz)
        dt == DateTime_pair(gtz, gdt)
    IN  IF get(this).abort
        THEN Aborted
        ELSE RetInst(dt.obj, dt.crit + UnrefCrit(gtz, NullTZ) + UnrefCrit(gdt, NullDT))

\* void DateTime::ymd(int&, int&, int&) const
ymd(this) ==
    IF get(this).abort THEN Aborted ELSE RetInts(g_date_time_get_ymd(get(this).val))
day_of_month(this) ==
    IF get(this).abort THEN Aborted
    ELSE RetInts(<<g_date_time_get_day_of_month(get(this).val)>>)
hour(this) ==
    IF get(this).abort THEN Aborted ELSE RetInts(<<g_date_time_get_hour(get(this).val)>>)
minute(this) ==
    IF get(this).abort THEN Aborted ELSE RetInts(<<g_date_time_get_minute(get(this).val)>>)
seconds(this) ==
    IF get(this).abort THEN Aborted ELSE RetInts(<<g_date_time_get_seconds(get(this).val)>>)
to_unix(this) ==
    IF get(this).abort THEN Aborted ELSE RetInts(<<g_date_time_to_unix(get(this).val)>>)

\* mutant of start_of_day: the hour kept instead of zeroed
start_of_day_keeps_hour(this) ==
    IF ~is_set(this) \/ this.m_tz = NullTZ \/ ymd(this).abort \/ hour(this).abort
    THEN Aborted
    ELSE LET f == ymd(this).ret.ints
             gdt == g_date_time_new(this.m_tz, f[1], f[2], f[3],
                                    hour(this).ret.ints[1], 0, 0)
             dt == DateTime_pair(this.m_tz, gdt)
         IN  RetInst(dt.obj, dt.crit + UnrefCrit(gdt, NullDT))

\* DateTime::start_of_day()
start_of_day(this) ==
    IF ~is_set(this) \/ this.m_tz = NullTZ \/ ymd(this).abort
    THEN Aborted
    ELSE LET f == ymd(this).ret.ints
             gdt == g_date_time_new(this.m_tz, f[1], f[2], f[3], 0, 0, 0)
             dt == DateTime_pair(this.m_tz, gdt)
         IN  RetInst(dt.obj, dt.crit + UnrefCrit(gdt, NullDT))

\* DateTime::start_of_minute()
start_of_minute(this) ==
    IF \/ ~is_set(this) \/ this.m_tz = NullTZ
       \/ ymd(this).abort \/ hour(this).abort \/ minute(this).abort
    THEN Aborted
    ELSE LET f == ymd(this).ret.ints
             gdt == g_date_time_new(this.m_tz, f[1], f[2], f[3],
                                    hour(this).ret.ints[1], minute(this).ret.ints[1], 0)
             dt == DateTime_pair(this.m_tz, gdt)
         IN  RetInst(dt.obj, dt.crit + UnrefCrit(gdt, NullDT))

\* mutant of add_full: the result paired with the local zone instead of m_tz
add_full_local_zone(this, years, months, days, hours, minutes, secs) ==
    IF this.m_dt = NullDT
    THEN Aborted
    ELSE LET gdt == g_date_time_add_full(this.m_dt, years, months, days,
                                         hours, minutes, secs)
             dt == DateTime_pair(g_time_zone_new_local, gdt)
         IN  RetInst(dt.obj, dt.crit + UnrefCrit(gdt, NullDT))

\* DateTime::add_full(years, months, days, hours, minutes, seconds)
add_full(this, years, months, days, hours, minutes, secs) ==
    IF get(this).abort
    THEN Aborted
    ELSE LET gdt == g_date_time_add_full(get(this).val, years, months, days,
                                         hours, minutes, secs)
             dt == DateTime_pair(this.m_tz, gdt)
         IN  RetInst(dt.obj, dt.crit + UnrefCrit(gdt, NullDT))

\* DateTime::add_days(days)
add_days(this, days) == add_full(this, 0, 0, days, 0, 0, 0)

\* std::string DateTime::format(fmt)
format(this, fmt) ==
    IF get(this).abort THEN Aborted ELSE RetStr(g_date_time_format(get(this).val, fmt))

\* bool DateTime::operator<, operator<=
operator_lt(this, that) ==
    IF get(this).abort \/ get(that).abort THEN Aborted
    ELSE RetBool(g_date_time_compare(get(this).val, get(that).val) < 0)
operator_le(this, that) ==
    IF get(this).abort \/ get(that).abort THEN Aborted
    ELSE RetBool(g_date_time_compare(get(this).val, get(that).val) <= 0)

\* bool DateTime::operator==
operator_eq(this, that) ==
    LET dt == get(this)
        tdt == get(that)
    IN  IF dt.abort \/ tdt.abort THEN Aborted
        ELSE IF dt.val = NullDT /\ tdt.val = NullDT THEN RetBool(TRUE)
        ELSE IF dt.val = NullDT \/ tdt.val = NullDT THEN RetBool(FALSE)
        ELSE RetBool(g_date_time_compare(get(this).val, get(that).val) = 0)

\* bool DateTime::operator!=
operator_ne(this, that) ==
    IF this.m_dt = NullDT THEN RetBool(TRUE)
    ELSE IF operator_eq(this, that).abort THEN Aborted
    ELSE RetBool(~operator_eq(this, that).ret.b)

\* int64_t DateTime::operator-
operator_minus(this, that) ==
    IF get(this).abort \/ get(that).abort THEN Aborted
    ELSE RetInts(<<g_date_time_difference(get(this).val, get(that).val)>>)

\* mutant of is_same_day: only the first operand checked for being set
is_same_day_first_checked(x, y) ==
    IF x.m_dt = NullDT THEN RetBool(FALSE)
    ELSE IF get(x).abort \/ get(y).abort THEN Aborted
    ELSE RetBool(/\ g_date_time_get_year(get(x).val) = g_date_time_get_year(get(y).val)
                 /\ g_date_time_get_day_of_year(get(x).val)
                        = g_date_time_get_day_of_year(get(y).val))

\* static bool DateTime::is_same_day(a, b)
is_same_day(x, y) ==
    IF x.m_dt = NullDT \/ y.m_dt = NullDT THEN RetBool(FALSE)
    ELSE IF get(x).abort \/ get(y).abort THEN Aborted
    ELSE RetBool(/\ g_date_time_get_year(get(x).val) = g_date_time_get_year(get(y).val)
                 /\ g_date_time_get_day_of_year(get(x).val)
                        = g_date_time_get_day_of_year(get(y).val))

\* static bool DateTime::is_same_minute(a, b)
is_same_minute(x, y) ==
    IF is_same_day(x, y).abort THEN Aborted
    ELSE IF ~is_same_day(x, y).ret.b THEN RetBool(FALSE)
    ELSE IF get(x).abort \/ get(y).abort THEN Aborted
    ELSE RetBool(/\ g_date_time_get_hour(get(x).val) = g_date_time_get_hour(get(y).val)
                 /\ g_date_time_get_minute(get(x).val) = g_date_time_get_minute(get(y).val))

---------------------------------------------------------------------------
(* The state machine: a caller holding one DateTime `a` and the value the  *)
(* last call returned, `r`.                                                *)

NoCall == [op |-> "none", args |-> <<>>, zone |-> "", that |-> Unset, crit |-> 0]

\* record a call's outcome; the receiver (const methods) is left alone.  A
\* scalar the last call returned is dropped (DoDrop) before the next call.
Call(name, args, zone, that, res) ==
    /\ ~aborted
    /\ r.kind \in {"none", "instant"}
    /\ aborted' = res.abort
    /\ r' = res.ret
    /\ out' = [op |-> name, args |-> args, zone |-> zone, that |-> that, crit |-> res.crit]
    /\ a' = a
    /\ UNCHANGED localtz

Init ==
    /\ localtz \in TimeZones
    /\ a = Unset
    /\ r = NoRet
    /\ out = NoCall
    /\ aborted = FALSE

\* inputs
LocalYears == {1, NumYears, NumYears + 1}
LocalDays == {1, DaysPerYear + 1}
LocalHours == {HoursPerDay - 1}
LocalMinutes == {MinsPerHour - 1}
LocalSeconds == {0, SecsPerMinute - 1}
\* epoch seconds: the first and last the local zone can show, one beyond each, and 0
FirstEpoch == 0 - EpochStart - Offset(g_time_zone_new_local)
LastEpoch == RangeSecs - 1 - EpochStart - Offset(g_time_zone_new_local)
EpochInputs == {FirstEpoch - 1, FirstEpoch, 0, LastEpoch, LastEpoch + 1}
NowInputs == {0, RangeSecs - 1}
AddYears == {0, 1}
AddMonths == {0}
AddDays == {-1, 0, 1}
AddHours == {0}
AddMinutes == {-1, 0}
AddSeconds == {0, 1}
AddDaysInputs == {-1, 0, 1, NumYears * DaysPerYear}
\* (zone, moment) pairs a caller passes to the two-handle constructor: a
\* moment it has at hand or null, with that moment's own zone, any zone for a
\* null moment, or null
HandlesAtHand == {NullDT, a.m_dt, r.inst.m_dt}
PairInputs ==
    {p \in (TimeZones \cup {NullTZ}) \X HandlesAtHand :
        p[1] = NullTZ \/ p[2] = NullDT \/ p[1] = p[2].tz}

DoDefault == Call("DateTime", <<>>, "", Unset, RetInst(Unset, 0))

DoPair ==
    \E p \in PairInputs :
        LET dt == DateTime_pair(p[1], p[2])
        IN  Call("DateTime_pair", <<>>, p[1], [m_tz |-> NullTZ, m_dt |-> p[2]],
                 RetInst(dt.obj, dt.crit))

DoTimeT == \E t \in EpochInputs : Call("DateTime_time_t", <<t>>, "", Unset, DateTime_time_t(t))

DoNowLocal ==
    \E now \in NowInputs : Call("NowLocal", <<now>>, "", Unset, NowLocal(now))

DoLocal ==
    \E y \in LocalYears, d \in LocalDays, h \in LocalHours,
       mi \in LocalMinutes, s \in LocalSeconds :
        Call("Local", <<y, 1, d, h, mi, s>>, "", Unset, Local(y, 1, d, h, mi, s))

DoAssign ==
    /\ ~aborted
    /\ r.kind = "instant"
    /\ a' = operator_assign(a, r.inst)
    /\ out' = [NoCall EXCEPT !.op = "operator=", !.that = r.inst]
    /\ UNCHANGED <<localtz, r, aborted>>

\* the caller lets a returned bool, number or string go
DoDrop ==
    /\ ~aborted
    /\ r.kind \notin {"none", "instant"}
    /\ r' = NoRet
    /\ out' = NoCall
    /\ UNCHANGED <<localtz, a, aborted>>

DoToTimezone ==
    \E zone \in ZoneNames : Call("to_timezone", <<>>, zone, Unset, to_timezone(a, zone))

DoStartOfDay == Call("start_of_day", <<>>, "", Unset, start_of_day(a))

DoStartOfMinute == Call("start_of_minute", <<>>, "", Unset, start_of_minute(a))

DoAddFull ==
    \E ys \in AddYears, ms \in AddMonths, ds \in AddDays, hs \in AddHours,
       mis \in AddMinutes, ss \in AddSeconds :
        Call("add_full", <<ys, ms, ds, hs, mis, ss>>, "", Unset,
             add_full(a, ys, ms, ds, hs, mis, ss))

DoAddDays == \E n \in AddDaysInputs : Call("add_days", <<n>>, "", Unset, add_days(a, n))

DoFormat == \E fmt \in FormatPatterns : Call("format", <<>>, fmt, Unset, format(a, fmt))

DoYmd == Call("ymd", <<>>, "", Unset, ymd(a))
DoDayOfMonth == Call("day_of_month", <<>>, "", Unset, day_of_month(a))
DoHour == Call("hour", <<>>, "", Unset, hour(a))
DoMinute == Call("minute", <<>>, "", Unset, minute(a))
DoSeconds == Call("seconds", <<>>, "", Unset, seconds(a))
DoToUnix == Call("to_unix", <<>>, "", Unset, to_unix(a))

\* binary operations: the receiver is `a`, the other operand the DateTime in `r`
DoLt == r.kind = "instant" /\ Call("operator<", <<>>, "", r.inst, operator_lt(a, r.inst))
DoLe == r.kind = "instant" /\ Call("operator<=", <<>>, "", r.inst, operator_le(a, r.inst))
DoEq == r.kind = "instant" /\ Call("operator==", <<>>, "", r.inst, operator_eq(a, r.inst))
DoNe == r.kind = "instant" /\ Call("operator!=", <<>>, "", r.inst, operator_ne(a, r.inst))
DoMinus == r.kind = "instant" /\ Call("operator-", <<>>, "", r.inst, operator_minus(a, r.inst))
DoIsSameDay ==
    r.kind = "instant" /\ Call("is_same_day", <<>>, "", r.inst, is_same_day(a, r.inst))
DoIsSameMinute ==
    r.kind = "instant" /\ Call("is_same_minute", <<>>, "", r.inst, is_same_minute(a, r.inst))

Next ==
    \/ DoDefault
    \/ DoPair
    \/ DoTimeT
    \/ DoNowLocal
    \/ DoLocal
    \/ DoAssign
    \/ DoDrop
    \/ DoToTimezone
    \/ DoStartOfDay
    \/ DoStartOfMinute
    \/ DoAddFull
    \/ DoAddDays
    \/ DoFormat
    \/ DoYmd
    \/ DoDayOfMonth
    \/ DoHour
    \/ DoMinute
    \/ DoSeconds
    \/ DoToUnix
    \/ DoLt
    \/ DoLe
    \/ DoEq
    \/ DoNe
    \/ DoMinus
    \/ DoIsSameDay
    \/ DoIsSameMinute

Spec == Init /\ [][Next]_vars

---------------------------------------------------------------------------
(* Properties.                                                             *)

WellFormed(i) == (i.m_tz = NullTZ) <=> (i.m_dt = NullDT)
PresenceMismatch == (out.zone = NullTZ) # (out.that.m_dt = NullDT)
Transformations == {"to_timezone", "start_of_day", "start_of_minute", "add_full", "add_days"}
SameZoneTransformations == {"start_of_day", "start_of_minute", "add_full", "add_days"}
ZoneDependent ==
    Transformations \cup {"format", "ymd", "day_of_month", "hour", "minute", "seconds", "to_unix"}

\* C1: in every reachable state, whatever constructions (failed ones and
\* mismatched (zone, moment) pairs included), transformations and assignments
\* came before, every DateTime has its zone absent iff its moment is absent.
C1_BothOrNeither == WellFormed(a) /\ WellFormed(r.inst)

C1_Witness ==
    /\ out.op = "DateTime_time_t"
    /\ out.crit > 0
    /\ r.inst = Unset
    /\ is_set(a)

\* what the spec says operator== returns
EqExpected(x, y) ==
    IF ~is_set(x) /\ ~is_set(y) THEN TRUE
    ELSE IF ~is_set(x) \/ ~is_set(y) THEN FALSE
    ELSE g_date_time_compare(x.m_dt, y.m_dt) = 0

\* C2: a == b returns without aborting: true when both are unset, false when
\* exactly one is unset, and for two set values true iff the engine's
\* three-way comparison of their instants is 0.
C2_EqReturns ==
    out.op = "operator==" =>
        /\ ~aborted
        /\ r.kind = "bool"
        /\ r.b = EqExpected(a, out.that)

\* C3: a != b is true whenever a is unset or a == b is false, and false
\* otherwise; for set a and unset b it is true.
C3_NeReturns ==
    out.op = "operator!=" =>
        /\ ~aborted
        /\ r.kind = "bool"
        /\ r.b = (~is_set(a) \/ ~EqExpected(a, out.that))

\* C4 as stated: constructing from a (zone, moment) pair with exactly one of
\* the two present aborts.
C4_MismatchAborts ==
    (out.op = "DateTime_pair" /\ PresenceMismatch) => aborted

\* C4 amended: constructing from a (zone, moment) pair with exactly one of the
\* two present does not abort; it logs a critical message and yields the unset
\* DateTime.
C4_MismatchYieldsUnset ==
    (out.op = "DateTime_pair" /\ PresenceMismatch) =>
        /\ ~aborted
        /\ r.kind = "instant"
        /\ r.inst = Unset
        /\ out.crit = 1

C4_Witness ==
    /\ out.op = "DateTime_pair"
    /\ out.zone \in TimeZones
    /\ out.that.m_dt = NullDT
    /\ r.kind = "instant"

\* C5: Local(...) with fields the engine cannot represent returns the unset
\* DateTime without aborting; with representable fields it returns a set
\* DateTime (in the local zone, showing those fields).
C5_LocalUnsetOnBadFields ==
    out.op = "Local" =>
        LET f == out.args
            representable ==
                g_date_time_new_local(f[1], f[2], f[3], f[4], f[5], f[6]) # NullDT
        IN  /\ ~aborted
            /\ r.kind = "instant"
            /\ ~representable => r.inst = Unset
            /\ representable =>
                /\ is_set(r.inst)
                /\ r.inst.m_tz = localtz
                /\ g_date_time_get_ymd(r.inst.m_dt) = <<f[1], f[2], f[3]>>
                /\ g_date_time_get_hour(r.inst.m_dt) = f[4]
                /\ g_date_time_get_minute(r.inst.m_dt) = f[5]
                /\ g_date_time_get_seconds(r.inst.m_dt) = f[6]

C5_Witness ==
    /\ out.op = "Local"
    /\ out.args[3] = DaysPerYear + 1
    /\ out.args[1] = 1
    /\ r.inst = Unset
    /\ ~aborted

C7_UnsetReceiverAborts ==
    (out.op \in ZoneDependent /\ ~is_set(a)) => (aborted /\ r.kind = "none")

C7_Witness ==
    /\ out.op = "start_of_minute"
    /\ ~is_set(a)
    /\ aborted

\* C8: for a set a, a.start_of_day() is a set DateTime in a's zone with hour,
\* minute and seconds 0 on a's calendar day; a.start_of_minute() is a set
\* DateTime in a's zone with seconds 0 and a's day, hour and minute.
C8_StartOf ==
    (out.op \in {"start_of_day", "start_of_minute"} /\ is_set(a)) =>
        /\ ~aborted
        /\ r.kind = "instant"
        /\ is_set(r.inst)
        /\ r.inst.m_tz = a.m_tz
        /\ seconds(r.inst).ret.ints = <<0>>
        /\ is_same_day(a, r.inst).ret.b
        /\ out.op = "start_of_day" =>
            /\ hour(r.inst).ret.ints = <<0>>
            /\ minute(r.inst).ret.ints = <<0>>
        /\ out.op = "start_of_minute" =>
            /\ hour(r.inst).ret.ints = hour(a).ret.ints
            /\ minute(r.inst).ret.ints = minute(a).ret.ints
            /\ is_same_minute(a, r.inst).ret.b

C8_Witness ==
    /\ out.op = "start_of_day"
    /\ is_set(a)
    /\ g_date_time_get_hour(a.m_dt) > 0
    /\ g_date_time_get_seconds(a.m_dt) > 0
    /\ g_date_time_get_year(a.m_dt) > 1
    /\ is_set(r.inst)

\* C9: for all DateTimes a and b, set or unset, is_same_day and
\* is_same_minute return without aborting; is_same_day(a, b) equals
\* is_same_day(b, a); both are false when a or b is unset; and
\* is_same_minute(a, b) implies is_same_day(a, b).
C9_SameDaySameMinute ==
    /\ out.op = "is_same_day" =>
        /\ ~aborted
        /\ r.kind = "bool"
        /\ r.b = is_same_day(out.that, a).ret.b
        /\ ~is_same_day(out.that, a).abort
        /\ (~is_set(a) \/ ~is_set(out.that)) => ~r.b
    /\ out.op = "is_same_minute" =>
        /\ ~aborted
        /\ r.kind = "bool"
        /\ (~is_set(a) \/ ~is_set(out.that)) => ~r.b
        /\ r.b => is_same_day(a, out.that).ret.b

C9_Witness ==
    /\ out.op = "is_same_minute"
    /\ is_set(a)
    /\ is_set(out.that)
    /\ a.m_tz # out.that.m_tz
    /\ r.kind = "bool"
    /\ r.b

\* C10: a transformation of a set DateTime leaves the receiver's handles
\* unchanged; what start_of_day, start_of_minute, add_full and add_days return
\* carries, when set, the receiver's zone; and when the engine produces no
\* moment the result is the unset DateTime, never a zone without a moment.
C10_Transformations ==
    [][(out'.op \in Transformations /\ is_set(a)) =>
        /\ a' = a
        /\ ~aborted'
        /\ r'.kind = "instant"
        /\ WellFormed(r'.inst)
        /\ (out'.op \in SameZoneTransformations /\ is_set(r'.inst)) =>
                r'.inst.m_tz = a.m_tz
        /\ out'.op = "add_full" =>
            LET f == out'.args
                gdt == g_date_time_add_full(a.m_dt, f[1], f[2], f[3], f[4], f[5], f[6])
            IN  /\ gdt = NullDT => r'.inst = Unset
                /\ gdt # NullDT => r'.inst.m_dt = gdt
        /\ out'.op = "add_days" =>
            LET gdt == g_date_time_add_full(a.m_dt, 0, 0, out'.args[1], 0, 0, 0)
            IN  /\ gdt = NullDT => r'.inst = Unset
                /\ gdt # NullDT => r'.inst.m_dt = gdt
      ]_vars

C10_Witness ==
    /\ out.op = "add_full"
    /\ is_set(a)
    /\ out.args[1] = 1
    /\ r.kind = "instant"
    /\ r.inst = Unset
    /\ out.crit > 0

=============================================================================
